---------------------------- MODULE Spec2Model ----------------------------
(***************************************************************************)
(* Wrestling leaderboard: the load -> filter -> rank -> project pipeline   *)
(* of streamlittest.py (Iowa, "IA": pound-for-pound tab and by-weight tab) *)
(* and streamlisttest-mo.py (Missouri, "MO": one expander per weight).     *)
(*                                                                         *)
(* A DataFrame is [columns, rows]; a row is a function from the column     *)
(* names, plus "index" (the pandas index label), to the cell values.       *)
(* Reading a column that is not in `columns` is the KeyError of the code:  *)
(* every operator tests presence where the code does, and yields the       *)
(* status "exception" where the code reads a column without testing.       *)
(*                                                                         *)
(* Units: global_score is held in hundredths, Win_Pct in ten-thousandths   *)
(* (0.8 is 8000), so that the f-string formats are computed, with their    *)
(* rounding, on integers.  The em dash of the code is written "--".        *)
(***************************************************************************)
EXTENDS Integers, Sequences, FiniteSets, TLC

\* ---------------------------------------------------------------- bounds
MaxRows == 2
MaxLen == 3
MaxWins == 3
MaxLosses == 2

\* ------------------------------------------------------------- constants
NaN == -1
ALL == "(All)"
DASH == "--"
ValueError == -2
GradeChoices == {9, 10, 11, 12}

Min(S) == CHOOSE x \in S : \A y \in S : x <= y
Max(S) == CHOOSE x \in S : \A y \in S : x >= y

\* ------------------------------------------------------------ str methods
RECURSIVE Join(_)
Join(s) == IF s = <<>> THEN "" ELSE s[1] \o Join(Tail(s))

\* x.split(",")[0]
SplitFirst(s) ==
    LET commas == {i \in 1..Len(s) : s[i] = ","}
    IN  IF commas = {} THEN s ELSE SubSeq(s, 1, Min(commas) - 1)

\* x.strip()
Strip(s) ==
    LET ns == {i \in 1..Len(s) : s[i] # " "}
    IN  IF ns = {} THEN <<>> ELSE SubSeq(s, Min(ns), Max(ns))

\* Series.astype(str): an empty cell was read as NaN and becomes "nan"
AsTypeStr(cell) == IF cell = <<>> THEN <<"n", "a", "n">> ELSE cell

\* str(g) of the grade options
Str(n) == ToString(n)

\* int(selected_grade): the number, or ValueError
Numerals == [n \in 0..99 |-> ToString(n)]
ParseInt(s) ==
    IF \E n \in 0..99 : Numerals[n] = s
    THEN CHOOSE n \in 0..99 : Numerals[n] = s
    ELSE ValueError

TwoDigits(n) == IF n < 10 THEN "0" \o ToString(n) ELSE ToString(n)

\* f"{x:.2f}" of a score held in hundredths
FormatScore(x) ==
    IF x = NaN THEN "nan"
    ELSE ToString(x \div 100) \o "." \o TwoDigits(x % 100)

\* round-half-even of num/den, den > 0: what ".1f" does to the quotient
RoundDiv(num, den) ==
    LET q == num \div den
        r == num % den
    IN  IF 2 * r > den \/ (2 * r = den /\ q % 2 = 1) THEN q + 1 ELSE q

\* f"{v:.1f}%" of a value given in tenths
FormatTenths(t) == ToString(t \div 10) \o "." \o ToString(t % 10) \o "%"

\* f"{num / den * 100:.1f}%"
FormatPct(num, den) == FormatTenths(RoundDiv(1000 * num, den))

\* ------------------------------------------------------------- DataFrame
DataFrame(cols, rows) == [columns |-> cols, rows |-> rows]

EmptyFrame == DataFrame({}, <<>>)

WithCol(r, c, v) == [k \in (DOMAIN r) \cup {c} |-> IF k = c THEN v ELSE r[k]]

DropCols(r, cs) == [k \in (DOMAIN r) \ cs |-> r[k]]

\* pd.read_csv: default RangeIndex 0..n-1
read_csv(file) ==
    DataFrame(file.columns,
              [i \in 1..Len(file.rows) |-> WithCol(file.rows[i], "index", i - 1)])

Classify(x) == Join(Strip(SplitFirst(x)))

load_data(file) ==
    LET df == read_csv(file)
        cls(r) == IF "leagues" \in df.columns
                  THEN Classify(AsTypeStr(r["leagues"]))
                  ELSE ""
    IN  DataFrame((df.columns \cup {"Classification"}) \ {"leagues"},
                  [i \in 1..Len(df.rows) |->
                      DropCols(WithCol(df.rows[i], "Classification", cls(df.rows[i])),
                               {"leagues"})])

ColumnValues(df, c) == {df.rows[i][c] : i \in 1..Len(df.rows)}

\* ---------------------------------------------------------- filter lists
all_leagues(df) ==
    IF "Classification" \in df.columns
    THEN {ALL} \cup ColumnValues(df, "Classification")
    ELSE {ALL}

all_metros(df) ==
    IF "Metro" \in df.columns THEN {ALL} \cup ColumnValues(df, "Metro") ELSE {ALL}

all_grades(df) ==
    IF "grade" \in df.columns
    THEN {ALL} \cup {Str(g) : g \in ColumnValues(df, "grade") \cap GradeChoices}
    ELSE {ALL}

\* --------------------------------------------------------- APPLY FILTERS
FilterEqDropFirst(df, c, v) ==
    LET kept == SelectSeq(df.rows, LAMBDA r : r[c] = v)
    IN  DataFrame(df.columns, IF kept = <<>> THEN kept ELSE Tail(kept))

FilterNe(df, c, v) == DataFrame(df.columns, SelectSeq(df.rows, LAMBDA r : r[c] # v))

\* df[df[c] == v]
FilterEq(df, c, v) == DataFrame(df.columns, SelectSeq(df.rows, LAMBDA r : r[c] = v))

\* 4a) Filter by Classification
FilterLeague(df, sl) ==
    IF sl # ALL /\ "Classification" \in df.columns
    THEN FilterEq(df, "Classification", sl) ELSE df

\* 4b) Filter by Metro
FilterMetro(df, sm) ==
    IF sm # ALL /\ "Metro" \in df.columns THEN FilterEq(df, "Metro", sm) ELSE df

\* 4c) Filter by Grade; `except ValueError: pass`
FilterGrade(df, sg) ==
    IF sg # ALL /\ "grade" \in df.columns
    THEN IF ParseInt(sg) # ValueError THEN FilterEq(df, "grade", ParseInt(sg)) ELSE df
    ELSE df

ApplyFilters(df, sl, sm, sg) == FilterGrade(FilterMetro(FilterLeague(df, sl), sm), sg)

\* ------------------------------------------------------- sort and ranking
\* sorted(set): the ascending list of a finite set of numbers
RECURSIVE Sorted(_)
Sorted(S) == IF S = {} THEN <<>> ELSE <<Min(S)>> \o Sorted(S \ {Min(S)})

\* DataFrame.sort_values(by=by, ascending=ascending), na_position="last".
\* The code passes no `kind`, so the sort is pandas' default quicksort,
\* which is not stable: rows with equal keys come out in an order the
\* library fixes but does not specify.  `t` is that order: a priority on
\* the positions of the frame being sorted (the identity is the stable one).
sort_values(df, by, ascending, t) ==
    LET n == Len(df.rows)
        key(i) == df.rows[i][by]
        KeyBefore(i, j) ==
            /\ key(i) # NaN
            /\ \/ key(j) = NaN
               \/ IF ascending THEN key(i) < key(j) ELSE key(i) > key(j)
        Before(i, j) ==
            \/ KeyBefore(i, j)
            \/ ~KeyBefore(i, j) /\ ~KeyBefore(j, i) /\ t[i] < t[j]
        pos(i) == 1 + Cardinality({j \in 1..n : Before(j, i)})
    IN  DataFrame(df.columns,
                  [p \in 1..n |-> df.rows[CHOOSE i \in 1..n : pos(i) = p]])

KeepIndex(df) == df

\* .reset_index(drop=True)
reset_index(df) ==
    DataFrame(df.columns,
              [i \in 1..Len(df.rows) |-> [df.rows[i] EXCEPT !["index"] = i - 1]])

AssignRankFromZero(df, name) ==
    DataFrame(df.columns \cup {name},
              [i \in 1..Len(df.rows) |-> WithCol(df.rows[i], name, df.rows[i]["index"])])

\* df[name] = df.index + 1
AssignRank(df, name) ==
    DataFrame(df.columns \cup {name},
              [i \in 1..Len(df.rows) |->
                  WithCol(df.rows[i], name, df.rows[i]["index"] + 1)])

\* ------------------------------------------------------ derived metrics
calc_win_pct_NoGuard(r) ==
    LET total == r["Wins"] + r["Losses"]
    IN  IF r["Wins"] = 0 THEN DASH ELSE FormatPct(r["Wins"], total)

calc_win_pct(r) ==
    LET total == r["Wins"] + r["Losses"]
    IN  IF total = 0 THEN DASH ELSE FormatPct(r["Wins"], total)

calc_bonus_pct_NoMajor(r) ==
    LET total_matches == r["Wins"] + r["Losses"]
        bonus_pts == r["Pins"] + r["Tech_Falls"]
    IN  IF total_matches = 0 THEN DASH ELSE FormatPct(bonus_pts, total_matches)

calc_bonus_pct(r) ==
    LET total_matches == r["Wins"] + r["Losses"]
        bonus_pts == r["Pins"] + r["Tech_Falls"] + r["Major_Decisions"]
    IN  IF total_matches = 0 THEN DASH ELSE FormatPct(bonus_pts, total_matches)

\* the "Win %" cell: the precomputed Win_Pct when the column exists
WinPctCell(cols, r) ==
    IF "Win_Pct" \in cols
    THEN IF r["Win_Pct"] # NaN
         THEN FormatTenths(RoundDiv(r["Win_Pct"], 10))
         ELSE DASH
    ELSE calc_win_pct(r)

\* ------------------------------------------------------------ projection
Header(c) ==
    CASE c = "wrestler_name" -> "Wrestler Name"
      [] c = "team_name" -> "Team Name"
      [] c = "grade" -> "Grade"
      [] c = "weight" -> "Weight"
      [] c = "Tech_Falls" -> "Tech Falls"
      [] c = "Major_Decisions" -> "Major Decisions"
      [] c = "dynamic_rank" -> "Rank"
      [] OTHER -> c

Range(s) == {s[i] : i \in 1..Len(s)}

\* the column a header names; "Rank" is dynamic_rank in the MO script
Source(h, r) ==
    CASE h = "Wrestler Name" -> "wrestler_name"
      [] h = "Team Name" -> "team_name"
      [] h = "Grade" -> "grade"
      [] h = "Weight" -> "weight"
      [] h = "Tech Falls" -> "Tech_Falls"
      [] h = "Major Decisions" -> "Major_Decisions"
      [] h = "Rank" /\ "dynamic_rank" \in DOMAIN r -> "dynamic_rank"
      [] OTHER -> h

\* df[cols_to_show].rename(columns=...), one row
ProjectRow(r, shown) ==
    [h \in {Header(c) : c \in Range(shown)} |-> r[Source(h, r)]]

Headers(shown) == [i \in 1..Len(shown) |-> Header(shown[i])]

NoTable == [status |-> "none", columns |-> <<>>, rows |-> <<>>]
Outcome(s) == [NoTable EXCEPT !.status = s]

\* ------------------------------------------- 5-A) pound-for-pound (IA)
P4PRequired == {"weight", "wrestler_name", "team_name", "grade"}
P4POrder == <<"P4P Rank", "FloWrestling Score", "weight", "wrestler_name",
              "team_name", "grade">>

\* df["FloWrestling Score"] = df["global_score"].apply(lambda x: f"{x:.2f}")
Scored(df) ==
    DataFrame(df.columns \cup {"FloWrestling Score"},
              [i \in 1..Len(df.rows) |->
                  WithCol(df.rows[i], "FloWrestling Score",
                          FormatScore(df.rows[i]["global_score"]))])

\* display_p4p = df_p4p[[...]].rename(...)
P4PDisplay(df_p4p) ==
    IF ~(P4PRequired \subseteq df_p4p.columns) THEN Outcome("exception")
    ELSE [status |-> "table",
          columns |-> Headers(P4POrder),
          rows |-> [i \in 1..Len(df_p4p.rows) |->
                       ProjectRow(df_p4p.rows[i], P4POrder)]]

SortAscending(df, by, ascending, t) == sort_values(df, by, TRUE, t)

\* dff.copy().sort_values(by="global_score", ascending=False)
SortP4P(df, by, ascending, t) == sort_values(df, by, ascending, t)

PoundForPoundNoEmptyCheck(d, t) ==
    IF "global_score" \notin d.columns THEN Outcome("exception")
    ELSE P4PDisplay(Scored(AssignRank(
             reset_index(SortP4P(d, "global_score", FALSE, t)), "P4P Rank")))

PoundForPound(d, t) ==
    IF Len(d.rows) = 0 THEN Outcome("empty")
    ELSE IF "global_score" \notin d.columns THEN Outcome("exception")
    ELSE P4PDisplay(Scored(AssignRank(
             reset_index(SortP4P(d, "global_score", FALSE, t)), "P4P Rank")))

\* --------------------------------------------------- by weight class
weight_list_KeepNaN(d) == Sorted(ColumnValues(d, "weight"))

\* sorted(dff["weight"].dropna().unique().tolist())
weight_list(d) == Sorted(ColumnValues(d, "weight") \ {NaN})

NoView == [weight |-> NaN, label |-> "", columns |-> <<>>, rows |-> <<>>]
Failed(s) == [status |-> s, view |-> NoView]

DropList == {"Classification", "Metro", "rank"}
DesiredOrderIA == <<"Rank", "FloWrestling Score", "wrestler_name", "team_name",
                    "grade", "Wins", "Losses", "Win %", "Bonus Pt %", "Pins",
                    "Tech_Falls", "Major_Decisions">>
DesiredOrderMO == <<"dynamic_rank", "wrestler_name", "team_name", "grade",
                    "Wins", "Losses", "Win %", "Bonus Pt %", "Pins",
                    "Tech_Falls", "Major_Decisions">>

\* the sort column of a weight class, <<by, ascending>>
SortKeyWinPctFirst(cols) ==
    IF "Win_Pct" \in cols THEN <<"Win_Pct", FALSE>>
    ELSE IF "rank" \in cols THEN <<"rank", TRUE>>
    ELSE <<"global_score", FALSE>>

SortKeyIA(cols) ==
    IF "rank" \in cols THEN <<"rank", TRUE>>
    ELSE IF "Win_Pct" \in cols THEN <<"Win_Pct", FALSE>>
    ELSE <<"global_score", FALSE>>

SortKeyMO(cols) ==
    IF "rank" \in cols THEN <<"rank", TRUE>> ELSE <<"Win_Pct", FALSE>>

\* the row of df_w with its "Win %" and "Bonus Pt %" cells
Wide(cols, r) ==
    WithCol(WithCol(r, "Win %", WinPctCell(cols, r)), "Bonus Pt %", calc_bonus_pct(r))

\* cols_to_show = [c for c in desired_order if c in df_display.columns]
ColsToShow(cols, drops, desired) ==
    SelectSeq(desired, LAMBDA c : c \in (cols \ drops) \cup {"Win %", "Bonus Pt %"})

\* df_display[cols_to_show].rename(...) of the ranked df_w
Display(df_w, w, label, shown) ==
    [weight |-> w, label |-> label,
     columns |-> Headers(shown),
     rows |-> [i \in 1..Len(df_w.rows) |->
                  ProjectRow(Wide(df_w.columns, df_w.rows[i]), shown)]]

\* streamlittest.py 5-B) iii, steps 3-10, on the ranked df_w
DisplayIA(df_w, w) ==
    IF "global_score" \notin df_w.columns THEN Failed("exception")
    ELSE [status |-> "table",
          view |-> Display(Scored(df_w), w, "",
                           ColsToShow(df_w.columns \cup {"FloWrestling Score"},
                                      DropList, DesiredOrderIA))]

\* steps 1-2: sort by the one key, Rank = 1..N
RankIA(df_w, w, t) ==
    IF Len(df_w.rows) = 0 THEN Failed("no_wrestlers")
    ELSE IF SortKeyIA(df_w.columns)[1] \notin df_w.columns THEN Failed("exception")
    ELSE DisplayIA(AssignRank(reset_index(
             sort_values(df_w, SortKeyIA(df_w.columns)[1],
                         SortKeyIA(df_w.columns)[2], t)), "Rank"), w)

\* df_w = dff[dff["weight"] == selected_weight].copy()
WeightClassIA(d, w, t) == RankIA(FilterEq(d, "weight", w), w, t)

\* top_row = df_w[df_w["dynamic_rank"] == 1].iloc[0]
TopRow(df_w) ==
    df_w.rows[Min({i \in 1..Len(df_w.rows) : df_w.rows[i]["dynamic_rank"] = 1})]

\* f"{w} | {top_name} ({top_team})"
ExpanderLabel(w, top_row) ==
    ToString(w) \o " | " \o top_row["wrestler_name"]
                \o " (" \o top_row["team_name"] \o ")"

\* streamlisttest-mo.py 5.1-5.8, on the ranked df_w
\* (.iloc[0] of an empty selection is an IndexError)
DisplayMO(df_w, w) ==
    IF \A i \in 1..Len(df_w.rows) : df_w.rows[i]["dynamic_rank"] # 1
    THEN Failed("exception")
    ELSE [status |-> "table",
          view |-> Display(df_w, w, ExpanderLabel(w, TopRow(df_w)),
                           ColsToShow(df_w.columns, DropList \cup {"Win_Pct"},
                                      DesiredOrderMO))]

\* A) the dynamic rank of the loop body
RankMO(df_w, w, t) ==
    IF Len(df_w.rows) = 0 THEN Failed("no_wrestlers")
    ELSE IF SortKeyMO(df_w.columns)[1] \notin df_w.columns THEN Failed("exception")
    ELSE DisplayMO(AssignRank(reset_index(
             sort_values(df_w, SortKeyMO(df_w.columns)[1],
                         SortKeyMO(df_w.columns)[2], t)), "dynamic_rank"), w)

WeightClassMO(d, w, t) == RankMO(FilterEq(d, "weight", w), w, t)

NoWC == [status |-> "none", weights |-> <<>>, views |-> <<>>]

TabOf(res, wl) ==
    [status |-> res.status, weights |-> wl,
     views |-> IF res.status = "table" THEN <<res.view>> ELSE <<>>]

\* streamlittest.py 5-B): the tab; `radio` is the value of st.radio
ByWeightIA(d, radio, t) ==
    IF "weight" \notin d.columns THEN [NoWC EXCEPT !.status = "missing_weight"]
    ELSE IF Len(weight_list(d)) = 0 THEN [NoWC EXCEPT !.status = "no_weights"]
    ELSE TabOf(WeightClassIA(d, radio, t), weight_list(d))

\* the expanders of the loop: an exception ends the script, the expanders
\* rendered before it stay on the page
Expanders(res, wl) ==
    [status |-> IF \E i \in 1..Len(wl) : res[i].status = "exception" THEN "exception"
                ELSE IF Len(wl) = 0 THEN "no_weights" ELSE "table",
     weights |-> wl,
     views |-> [k \in 1..Cardinality({i \in 1..Len(wl) :
                        \A j \in 1..i : res[j].status # "exception"}) |->
                   res[k].view]]

\* streamlisttest-mo.py 5): weight check (st.error, st.stop) and the loop
ByWeightMO(d, t) ==
    IF "weight" \notin d.columns THEN [NoWC EXCEPT !.status = "missing_weight"]
    ELSE Expanders([i \in 1..Len(weight_list(d)) |->
                       WeightClassMO(d, weight_list(d)[i], t)],
                   weight_list(d))

\* st.radio(options=weight_list, index=0, key="weight_radio"): the stored
\* value while it is still an option, else the first option
RadioValue(wl, stored) ==
    IF stored \in Range(wl) THEN stored ELSE wl[1]

\* ------------------------------------------------------------ one run
\* One execution of the script below the load, on the filtered frame d.
\* An exception in tab 1 ends the script before tab 2.
Tab2IA(d, tab1, radio, t) ==
    [dff |-> d, p4p |-> tab1, wc |-> ByWeightIA(d, radio, t), radio |-> radio]

RadioOf(d, stored) ==
    IF "weight" \in d.columns /\ Len(weight_list(d)) > 0
    THEN RadioValue(weight_list(d), stored)
    ELSE NaN

TabsIA(d, tab1, stored, t) ==
    IF tab1.status = "exception"
    THEN [dff |-> d, p4p |-> tab1, wc |-> NoWC, radio |-> NaN]
    ELSE Tab2IA(d, tab1, RadioOf(d, stored), t)

Tabs(variantOf, d, stored, t) ==
    IF variantOf = "IA"
    THEN TabsIA(d, PoundForPound(d, t), stored, t)
    ELSE [dff |-> d, p4p |-> NoTable, wc |-> ByWeightMO(d, t), radio |-> NaN]

Run(variantOf, df, sl, sm, sg, stored, t) ==
    Tabs(variantOf, ApplyFilters(df, sl, sm, sg), stored, t)

\* ------------------------------------------------------------------ state
VARIABLES
    csv,              \* the file at DATA_PATH: [exists, columns, rows]
    variant,          \* "IA": streamlittest.py, "MO": streamlisttest-mo.py
    tie,              \* the order pandas' default sort leaves equal keys in
    pc,               \* "init", "ready" (a run has ended), "stopped"
    error,            \* the st.error shown by the last run, or "none"
    df_all,
    selected_league,
    selected_metro,
    selected_grade,
    weight_radio,     \* session value of key "weight_radio", NaN when unset
    dff,
    p4p,              \* tab 1 of the last run
    wc                \* the weight-class tables of the last run

vars == <<csv, variant, tie, pc, error, df_all, selected_league, selected_metro,
          selected_grade, weight_radio, dff, p4p, wc>>

\* -------------------------------------------------------- input tables
BaseCols == {"wrestler_name", "team_name", "Wins", "Losses", "Pins",
             "Tech_Falls", "Major_Decisions"}

RECURSIVE FunsOver(_, _)
FunsOver(cols, D) ==
    IF cols = {} THEN {[c \in {} |-> 0]}
    ELSE LET c == CHOOSE x \in cols : TRUE
         IN  {WithCol(f, c, v) : f \in FunsOver(cols \ {c}, D), v \in D[c]}

Name(i) == "w" \o ToString(i)

RowsAt(cols, D, i) ==
    {WithCol(f, "wrestler_name", Name(i)) :
        f \in FunsOver(cols \ {"wrestler_name"}, D[i])}

RECURSIVE TablesOf(_, _, _)
TablesOf(cols, D, n) ==
    IF n = 0 THEN {<<>>}
    ELSE {Append(s, r) : s \in TablesOf(cols, D, n - 1), r \in RowsAt(cols, D, n)}

File(cols, rows) == [exists |-> TRUE, columns |-> cols, rows |-> rows]
NoFile == [exists |-> FALSE, columns |-> {}, rows |-> <<>>]

Files(colsets, D, ns) ==
    UNION {UNION {{File(cols, rows) : rows \in TablesOf(cols, D, n)} : n \in ns}
           : cols \in colsets}

ExampleLeagues == <<"C", "l", "a", "s", "s", " ", "1", "A", ",", " ",
                    "Z", "i", "n", "c", " ", "C", "o", "u", "n", "t", "y">>

RECURSIVE Cells(_)
Cells(n) ==
    IF n = 0 THEN {<<>>}
    ELSE Cells(n - 1) \cup
         {Append(s, ch) : s \in {x \in Cells(n - 1) : Len(x) = n - 1},
                          ch \in {"A", " ", ","}}

PlainRow == [team_name |-> {"T"}, Wins |-> {1}, Losses |-> {1}, Pins |-> {0},
             Tech_Falls |-> {0}, Major_Decisions |-> {0},
             leagues |-> {ExampleLeagues}, Metro |-> {"KC"}, grade |-> {9},
             weight |-> {106}, rank |-> {1}, Win_Pct |-> {8000},
             global_score |-> {100}]

\* ranking: the sort columns and the weight vary, the grade filter selects
\* (the first row is in grade 9: the filter reaches every subset of rows)
RankDomain ==
    [i \in 1..MaxRows |->
        [PlainRow EXCEPT !.grade = IF i = 1 THEN {9} ELSE {9, 10},
                         !.weight = {106, 113},
                         !.rank = {1, 2}, !.Win_Pct = {5000, 10000},
                         !.global_score = {100, 250}]]
RankFiles ==
    Files({BaseCols \cup {"Metro", "grade", "weight"} \cup S :
              S \in SUBSET {"rank", "Win_Pct", "global_score"}},
          RankDomain, 1..MaxRows)

\* filters: the filter columns vary and may each be missing (the values are
\* interchangeable, so the first row keeps one of each)
FilterDomain ==
    [i \in 1..MaxRows |->
        IF i = 1
        THEN [PlainRow EXCEPT !.leagues = {<<"1", "A", ",", " ", "Z">>},
                              !.weight = {113, NaN}]
        ELSE [PlainRow EXCEPT !.leagues = {<<"1", "A", ",", " ", "Z">>, <<"2", "A">>},
                              !.Metro = {"KC", "STL"}, !.grade = {9, 10},
                              !.weight = {106, 113},
                              !.rank = {i}, !.global_score = {100 * i}]]
FilterFiles ==
    Files({BaseCols \cup {"rank", "global_score"} \cup S :
              S \in SUBSET {"leagues", "Metro", "grade", "weight"}},
          FilterDomain, 0..MaxRows)

\* percentages: the match counts of the first row vary; the second row is
\* the 8-2 wrestler with 3 pins and 1 technical fall
PctDomain ==
    <<[PlainRow EXCEPT !.Wins = 0..MaxWins, !.Losses = 0..MaxLosses,
                       !.Pins = {0, 1}, !.Tech_Falls = {0, 1},
                       !.Major_Decisions = {0, 1}, !.rank = {2},
                       !.weight = {106, 113},
                       !.Win_Pct = {NaN, 0, 6667}],
      [PlainRow EXCEPT !.Wins = {8}, !.Losses = {2}, !.Pins = {3},
                       !.Tech_Falls = {1}]>>
PctFiles ==
    Files({BaseCols \cup {"Metro", "grade", "weight", "rank", "global_score"} \cup S :
              S \in SUBSET {"Win_Pct"}},
          PctDomain, {2})

\* loading: every short leagues cell, the empty one included
LoadDomain ==
    <<[PlainRow EXCEPT !.leagues = Cells(MaxLen)],
      [PlainRow EXCEPT !.rank = {2}, !.grade = {10}, !.weight = {113}]>>
LoadFiles ==
    {NoFile} \cup
    Files({BaseCols \cup {"Metro", "grade", "weight", "rank", "global_score"} \cup S :
              S \in SUBSET {"leagues"}},
          LoadDomain, {1, 2})

\* static ranks: one weight class of three rows whose static ranks vary
\* (ties included) against a Win_Pct order that follows the file order; the
\* grade filter removes any subset of the later rows or the first row
StaticRows == MaxRows + 1
StaticDomain ==
    [i \in 1..StaticRows |->
        [PlainRow EXCEPT !.rank = IF i = 1 THEN {1, 2} ELSE {1, 2, 3},
                         !.grade = IF i = 1 THEN {9} ELSE {9, 10},
                         !.weight = IF i = StaticRows THEN {106, 113} ELSE {106},
                         !.Win_Pct = {2000 * i}]]
StaticFiles ==
    Files({BaseCols \cup {"Metro", "grade", "weight", "rank", "Win_Pct",
                          "global_score"}},
          StaticDomain, {StaticRows})

Identity(n) == [i \in 1..n |-> i]

InitState ==
    /\ variant \in {"IA", "MO"}
    /\ pc = "init"
    /\ error = "none"
    /\ df_all = EmptyFrame
    /\ selected_league = ALL
    /\ selected_metro = ALL
    /\ selected_grade = ALL
    /\ weight_radio = NaN
    /\ dff = EmptyFrame
    /\ p4p = NoTable
    /\ wc = NoWC

Init ==
    /\ csv \in RankFiles
    /\ tie \in Permutations(1..Len(csv.rows))
    /\ InitState

InitFilter ==
    /\ csv \in FilterFiles
    /\ tie = Identity(Len(csv.rows))
    /\ InitState

InitPct ==
    /\ csv \in PctFiles
    /\ tie = Identity(Len(csv.rows))
    /\ InitState

InitLoad ==
    /\ csv \in LoadFiles
    /\ tie = Identity(Len(csv.rows))
    /\ InitState

Reversed(n) == [i \in 1..n |-> n + 1 - i]

InitStatic ==
    /\ csv \in StaticFiles
    /\ tie \in {Identity(Len(csv.rows)), Reversed(Len(csv.rows))}
    /\ InitState

\* ---------------------------------------------------------------- actions
CommitFiltered(df, sl, sm, sg, out) ==
    /\ pc' = "ready"
    /\ df_all' = out.dff
    /\ selected_league' = sl
    /\ selected_metro' = sm
    /\ selected_grade' = sg
    /\ weight_radio' = out.radio
    /\ dff' = out.dff
    /\ p4p' = out.p4p
    /\ wc' = out.wc
    /\ error' = IF out.wc.status = "missing_weight" THEN "missing_weight" ELSE "none"
    /\ UNCHANGED <<csv, variant, tie>>

\* the state a run leaves
Commit(df, sl, sm, sg, out) ==
    /\ pc' = "ready"
    /\ df_all' = df
    /\ selected_league' = sl
    /\ selected_metro' = sm
    /\ selected_grade' = sg
    /\ weight_radio' = out.radio
    /\ dff' = out.dff
    /\ p4p' = out.p4p
    /\ wc' = out.wc
    /\ error' = IF out.wc.status = "missing_weight" THEN "missing_weight" ELSE "none"
    /\ UNCHANGED <<csv, variant, tie>>

Script(df, sl, sm, sg, stored) ==
    Commit(df, sl, sm, sg, Run(variant, df, sl, sm, sg, stored, tie))

RerunOnFiltered(sl, sm, sg, stored) == Script(dff, sl, sm, sg, stored)

\* a re-run with the widget values sl, sm, sg and the stored radio:
\* @st.cache_data answers load_data(DATA_PATH) with the table it cached
Rerun(sl, sm, sg, stored) == Script(df_all, sl, sm, sg, stored)

StartNoHandler ==
    /\ pc = "init"
    /\ Script(load_data(csv), ALL, ALL, ALL, NaN)

\* the first run of a session: load_data, every widget at index 0
Start ==
    /\ pc = "init"
    /\ IF csv.exists
       THEN Script(load_data(csv), ALL, ALL, ALL, NaN)
       ELSE /\ pc' = "stopped"
            /\ error' = "source_not_found"
            /\ UNCHANGED <<csv, variant, tie, df_all, selected_league,
                           selected_metro, selected_grade, weight_radio, dff,
                           p4p, wc>>

SelectLeague(v) ==
    /\ pc = "ready"
    /\ v \in all_leagues(df_all)
    /\ v # selected_league
    /\ Rerun(v, selected_metro, selected_grade, weight_radio)

SelectMetro(v) ==
    /\ pc = "ready"
    /\ v \in all_metros(df_all)
    /\ v # selected_metro
    /\ Rerun(selected_league, v, selected_grade, weight_radio)

\* The selectbox offers all_grades; the filter stage itself takes any string
\* and guards int() with try/except, so one unparsable value is drawn too.
InvalidGrades == {"abc"}

SelectGrade(v) ==
    /\ pc = "ready"
    /\ v \in all_grades(df_all) \cup InvalidGrades
    /\ v # selected_grade
    /\ Rerun(selected_league, selected_metro, v, weight_radio)

\* the radio of tab 2 (IA), offered when the last run rendered it
SelectWeight(w) ==
    /\ pc = "ready"
    /\ variant = "IA"
    /\ weight_radio # NaN
    /\ w \in Range(wc.weights)
    /\ w # weight_radio
    /\ Rerun(selected_league, selected_metro, selected_grade, w)

Next ==
    \/ Start
    \/ \E v \in all_leagues(df_all) : SelectLeague(v)
    \/ \E v \in all_metros(df_all) : SelectMetro(v)
    \/ \E v \in all_grades(df_all) \cup InvalidGrades : SelectGrade(v)
    \/ \E w \in Range(wc.weights) : SelectWeight(w)

Spec == Init /\ [][Next]_vars
SpecFilter == InitFilter /\ [][Next]_vars
SpecPct == InitPct /\ [][Next]_vars
SpecLoad == InitLoad /\ [][Next]_vars

SpecStatic == InitStatic /\ [][Next]_vars
\* ======================================================================
\* Properties
\* ======================================================================
Ready == pc = "ready"

PosOf(df, name) ==
    CHOOSE i \in 1..Len(df.rows) : df.rows[i]["wrestler_name"] = name

\* the filtered row a display row shows
Shown(row) == dff.rows[PosOf(dff, row["Wrestler Name"])]

Total(r) == r["Wins"] + r["Losses"]

Abs(x) == IF x < 0 THEN -x ELSE x

\* cell is num/den as a percentage to the nearest tenth, with "%"
IsPctOf(cell, num, den) ==
    \E tenths \in 0..(1000 * num) \div den + 1 :
        /\ 2 * Abs(1000 * num - tenths * den) <= den
        /\ cell = FormatTenths(tenths)

ViewIndices == 1..Len(wc.views)

\* the rows of the filtered set at weight w
RowsAtWeight(w) == {i \in 1..Len(dff.rows) : dff.rows[i]["weight"] = w}

IsOneToN(ranks, n) ==
    /\ Len(ranks) = n
    /\ {ranks[i] : i \in 1..Len(ranks)} = 1..n

\* C1: in every ranked view (the pound-for-pound table over the whole
\* filtered set, each weight-class table over the filtered rows of its
\* weight) the ranks are exactly 1..N, N the number of rows in that view.
C1_RanksOneToN ==
    Ready =>
        /\ p4p.status = "table" =>
              IsOneToN([i \in 1..Len(p4p.rows) |-> p4p.rows[i]["P4P Rank"]],
                       Len(dff.rows))
        /\ \A k \in ViewIndices :
              IsOneToN([i \in 1..Len(wc.views[k].rows) |->
                           wc.views[k].rows[i]["Rank"]],
                       Cardinality(RowsAtWeight(wc.views[k].weight)))

C1_Witness ==
    /\ Ready
    /\ selected_grade = "9"
    /\ Len(dff.rows) < Len(df_all.rows)
    /\ \E k \in ViewIndices : Len(wc.views[k].rows) = 1
    /\ variant = "IA" => p4p.status = "table"

\* the one sort key of the precedence rank, Win_Pct, global_score
ClaimKey(cols) ==
    IF "rank" \in cols THEN <<"rank", TRUE>>
    ELSE IF "Win_Pct" \in cols THEN <<"Win_Pct", FALSE>>
    ELSE <<"global_score", FALSE>>

\* rows tied on column `by` keep the order of the filtered input
StableOn(rows, by, rankCol) ==
    \A i, j \in 1..Len(rows) :
        /\ Shown(rows[i])[by] = Shown(rows[j])[by]
        /\ PosOf(dff, rows[i]["Wrestler Name"]) < PosOf(dff, rows[j]["Wrestler Name"])
        => rows[i][rankCol] < rows[j][rankCol]

\* C2: ranking is stable: two rows of a ranked view with equal sort keys
\* are ranked in the order they have in the filtered input.
C2_Stable ==
    Ready =>
        /\ p4p.status = "table" => StableOn(p4p.rows, "global_score", "P4P Rank")
        /\ \A k \in ViewIndices :
              StableOn(wc.views[k].rows, ClaimKey(dff.columns)[1], "Rank")

\* rows in display order do not decrease (ascending) or increase on `key`
OrderedOn(rows, key) ==
    \A i, j \in 1..Len(rows) :
        i < j =>
            IF key[2]
            THEN Shown(rows[i])[key[1]] <= Shown(rows[j])[key[1]]
            ELSE Shown(rows[i])[key[1]] >= Shown(rows[j])[key[1]]

HasWeightRows == "weight" \in dff.columns /\ Len(weight_list(dff)) > 0

\* C3: in both variants a weight class is ordered by the one key of the
\* precedence rank (ascending), else Win_Pct (descending), else global_score
\* (descending); with rank and Win_Pct both absent the ranking still
\* succeeds, on global_score.
C3_KeyPrecedence ==
    Ready =>
        /\ \A k \in ViewIndices :
              OrderedOn(wc.views[k].rows, ClaimKey(dff.columns))
        /\ /\ HasWeightRows
           /\ "rank" \notin dff.columns
           /\ "Win_Pct" \notin dff.columns
           /\ "global_score" \in dff.columns
           => /\ wc.status = "table"
              /\ \A k \in ViewIndices : Len(wc.views[k].rows) > 0

\* C4: the pound-for-pound table holds the whole filtered set, and of two
\* of its rows the one with the strictly higher global_score has the
\* smaller P4P rank, whatever other columns the input has.
C4_P4PByScore ==
    Ready /\ p4p.status = "table" =>
        /\ {p4p.rows[i]["Wrestler Name"] : i \in 1..Len(p4p.rows)}
              = ColumnValues(dff, "wrestler_name")
        /\ \A i, j \in 1..Len(p4p.rows) :
              Shown(p4p.rows[i])["global_score"] > Shown(p4p.rows[j])["global_score"]
              => p4p.rows[i]["P4P Rank"] < p4p.rows[j]["P4P Rank"]

\* a table whose score order is the reverse of its static rank order
C4_Witness ==
    /\ Ready
    /\ p4p.status = "table"
    /\ {"rank", "Win_Pct"} \subseteq dff.columns
    /\ \E i, j \in 1..Len(p4p.rows) :
          /\ Shown(p4p.rows[i])["global_score"] > Shown(p4p.rows[j])["global_score"]
          /\ Shown(p4p.rows[i])["rank"] > Shown(p4p.rows[j])["rank"]
          /\ Shown(p4p.rows[i])["Win_Pct"] < Shown(p4p.rows[j])["Win_Pct"]
          /\ PosOf(dff, p4p.rows[i]["Wrestler Name"])
                > PosOf(dff, p4p.rows[j]["Wrestler Name"])

\* every displayed weight-class row satisfies P(display row, filtered row)
EveryDisplayed(P(_, _)) ==
    \A k \in ViewIndices :
        \A i \in 1..Len(wc.views[k].rows) :
            P(wc.views[k].rows[i], Shown(wc.views[k].rows[i]))

SomeDisplayed(P(_, _)) ==
    \E k \in ViewIndices :
        \E i \in 1..Len(wc.views[k].rows) :
            P(wc.views[k].rows[i], Shown(wc.views[k].rows[i]))

WinPctFromCounts(row, r) ==
    /\ row["Win %"] = DASH <=> Total(r) = 0
    /\ Total(r) # 0 => IsPctOf(row["Win %"], r["Wins"], Total(r))

\* C5 as stated: Win % is the dash exactly when Wins+Losses = 0 and else
\* Wins/(Wins+Losses)*100 to one decimal, with or without a Win_Pct column.
C5_WinPctAlwaysFromCounts == Ready => EveryDisplayed(WinPctFromCounts)

WinPctFromColumn(row, r) ==
    /\ row["Win %"] = DASH <=> r["Win_Pct"] = NaN
    /\ r["Win_Pct"] # NaN => IsPctOf(row["Win %"], r["Win_Pct"], 10000)

WinPctAmended(row, r) ==
    IF "Win_Pct" \in dff.columns
    THEN WinPctFromColumn(row, r)
    ELSE WinPctFromCounts(row, r)

\* C5 amended: without a Win_Pct column Win % is the dash exactly when
\* Wins+Losses = 0 and else Wins/(Wins+Losses)*100 to one decimal; with a
\* Win_Pct column it is the dash exactly when the row's Win_Pct is null and
\* else Win_Pct*100 to one decimal.  The table of a weight shows every
\* filtered row of that weight: no division by zero stops a run.
C5_WinPctAmendedHolds ==
    Ready =>
        /\ EveryDisplayed(WinPctAmended)
        /\ wc.status = "table"
        /\ \A k \in ViewIndices :
              Len(wc.views[k].rows) = Cardinality(RowsAtWeight(wc.views[k].weight))

NoMatchesDash(row, r) == Total(r) = 0 /\ row["Win %"] = DASH
LossesOnly(row, r) == r["Wins"] = 0 /\ Total(r) > 0 /\ row["Win %"] = "0.0%"
ColumnDisagrees(row, r) == Total(r) = 0 /\ row["Win %"] = "0.0%"

C5_Witness ==
    /\ Ready
    /\ \/ /\ "Win_Pct" \notin dff.columns
          /\ SomeDisplayed(NoMatchesDash)
          /\ SomeDisplayed(LAMBDA row, r : row["Win %"] = "80.0%")
       \/ /\ "Win_Pct" \in dff.columns
          /\ SomeDisplayed(ColumnDisagrees)

BonusPts(r) == r["Pins"] + r["Tech_Falls"] + r["Major_Decisions"]

BonusFromCounts(row, r) ==
    /\ row["Bonus Pt %"] = DASH <=> Total(r) = 0
    /\ Total(r) # 0 => IsPctOf(row["Bonus Pt %"], BonusPts(r), Total(r))

\* C6: Bonus Pt % is the dash exactly when Wins+Losses = 0 and else
\* (Pins+Tech_Falls+Major_Decisions)/(Wins+Losses)*100 to one decimal.
C6_BonusPct == Ready => EveryDisplayed(BonusFromCounts)

\* the 8-2 wrestler with 3 pins and 1 technical fall shows "40.0%"
EightAndTwo(row, r) ==
    /\ r["Wins"] = 8 /\ r["Losses"] = 2
    /\ r["Pins"] = 3 /\ r["Tech_Falls"] = 1 /\ r["Major_Decisions"] = 0
    /\ row["Bonus Pt %"] = "40.0%"

C6_Witness ==
    /\ Ready
    /\ SomeDisplayed(EightAndTwo)
    /\ \/ SomeDisplayed(LAMBDA row, r : Total(r) = 0 /\ row["Bonus Pt %"] = DASH)
       \/ SomeDisplayed(LAMBDA row, r : r["Major_Decisions"] = 1 /\ Total(r) = 3
                                        /\ BonusPts(r) = 2
                                        /\ row["Bonus Pt %"] = "66.7%")

\* ---------------------------------------------------------------- load
\* the cell of row i of the file, <<>> when the cell or the column is absent
LeaguesCell(i) ==
    IF "leagues" \in csv.columns THEN csv.rows[i]["leagues"] ELSE <<>>

\* x is s without the spaces at its two ends
IsTrimOf(x, s) ==
    \E a \in 0..Len(s) : \E b \in a..Len(s) :
        /\ x = SubSeq(s, a + 1, b)
        /\ \A i \in (1..a) \cup ((b + 1)..Len(s)) : s[i] = " "
        /\ x # <<>> => x[1] # " " /\ x[Len(x)] # " "

\* x is the part of s before its first comma (all of s when it has none)
IsBeforeComma(x, s) ==
    /\ \A i \in 1..Len(x) : x[i] # ","
    /\ \/ x = s
       \/ Len(x) < Len(s) /\ x = SubSeq(s, 1, Len(x)) /\ s[Len(x) + 1] = ","

\* C7: after load_data every row's Classification is the trimmed part of
\* its leagues value before the first comma, and the empty string when the
\* row has no leagues value or the column is missing; leagues is no column
\* of the table nor of any output.
C7_Classification ==
    Ready =>
        /\ "leagues" \notin df_all.columns
        /\ "Classification" \in df_all.columns
        /\ \A k \in ViewIndices :
              \A i \in 1..Len(wc.views[k].columns) :
                 wc.views[k].columns[i] \notin {"leagues", "Leagues"}
        /\ \A i \in 1..Len(csv.rows) :
              \E pre \in {SubSeq(LeaguesCell(i), 1, n) : n \in 0..Len(LeaguesCell(i))} :
                 \E x \in {SubSeq(pre, a, b) : a \in 1..Len(pre) + 1, b \in 0..Len(pre)} :
                    /\ IsBeforeComma(pre, LeaguesCell(i))
                    /\ IsTrimOf(x, pre)
                    /\ df_all.rows[i]["Classification"] = Join(x)

\* -------------------------------------------------------------- filters
IsInteger(s) == \E n \in 0..99 : Str(n) = s

LeagueActive == "Classification" \in df_all.columns /\ selected_league # ALL
MetroActive == "Metro" \in df_all.columns /\ selected_metro # ALL
GradeActive ==
    "grade" \in df_all.columns /\ selected_grade # ALL /\ IsInteger(selected_grade)

MatchesAll(r) ==
    /\ LeagueActive => r["Classification"] = selected_league
    /\ MetroActive => r["Metro"] = selected_metro
    /\ GradeActive => Str(r["grade"]) = selected_grade

\* C8: the filtered set is exactly the rows of the loaded table that match
\* every active filter, in their original order; a filter is active when
\* its column exists, its selection is not "(All)" and, for grade, the
\* selection is an integer; with no active filter the table is unchanged.
C8_FilterExact ==
    Ready =>
        /\ dff.columns = df_all.columns
        /\ dff.rows = SelectSeq(df_all.rows, MatchesAll)
        /\ ~LeagueActive /\ ~MetroActive /\ ~GradeActive => dff = df_all

C8_Witness ==
    /\ Ready
    /\ LeagueActive /\ MetroActive /\ GradeActive
    /\ Len(df_all.rows) = MaxRows
    /\ Len(dff.rows) = 1

\* an unparsable grade alone filters nothing
C8_WitnessInvalid ==
    /\ Ready
    /\ selected_grade \in InvalidGrades
    /\ "grade" \in df_all.columns

\* C9: filtering the filtered set again with the same selections gives the
\* same rows in the same order.
C9_FilterIdempotent ==
    Ready =>
        ApplyFilters(dff, selected_league, selected_metro, selected_grade) = dff

C9_Witness ==
    /\ Ready
    /\ LeagueActive /\ GradeActive
    /\ Len(df_all.rows) = MaxRows
    /\ Len(dff.rows) = 1
    /\ dff.rows[1]["index"] = 1

\* C10: when the selections match no row, the pound-for-pound tab and the
\* weight-class grouping show no table, assign no rank and raise no
\* exception: each takes its no-data branch (the weight-class grouping its
\* missing-column message when the table has no weight column).
C10_EmptyHandled ==
    Ready /\ Len(dff.rows) = 0 =>
        /\ variant = "IA" => p4p.status = "empty"
        /\ p4p.rows = <<>>
        /\ wc.views = <<>>
        /\ wc.status = IF "weight" \in dff.columns THEN "no_weights"
                       ELSE "missing_weight"
        /\ "weight" \in dff.columns => error = "none"

C10_Witness ==
    /\ Ready
    /\ variant = "IA"
    /\ Len(df_all.rows) = MaxRows
    /\ Len(dff.rows) = 0
    /\ "weight" \in dff.columns
    /\ wc.status = "no_weights"
    /\ p4p.status = "empty"

\* ------------------------------------------------------- missing inputs
NothingRendered ==
    /\ df_all = EmptyFrame
    /\ dff = EmptyFrame
    /\ p4p = NoTable
    /\ wc = NoWC
    /\ weight_radio = NaN

\* C11: when the file at DATA_PATH does not exist the run ends stopped with
\* the source-not-found message, and no filter, ranking or display step has
\* run: no table is loaded, filtered or shown, in that run or after it.
C11_SourceNotFound ==
    ~csv.exists =>
        /\ NothingRendered
        /\ pc = "init" \/ (pc = "stopped" /\ error = "source_not_found")
        /\ pc = "stopped" => ~ENABLED Next

C11_Witness ==
    /\ ~csv.exists
    /\ pc = "stopped"
    /\ error = "source_not_found"
    /\ NothingRendered

\* C12: when the loaded table has no weight column, every run shows the
\* missing-column message for the weight-class grouping and no weight-class
\* table, and no grouping, the pound-for-pound tab included, ends in a raw
\* exception.  (Stated for tables that have every other column the
\* pound-for-pound tab reads, so that only the weight column is missing.)
C12_MissingWeight ==
    Ready /\ "weight" \notin df_all.columns /\ "grade" \in df_all.columns =>
        /\ wc.status = "missing_weight"
        /\ error = "missing_weight"
        /\ wc.views = <<>>
        /\ p4p.status # "exception"

\* ------------------------------------------------------------- re-runs
\* C13: after any sequence of runs, whatever the filter and weight
\* selections were, df_all is the table load_data returned: same columns,
\* same rows in the same order with the same values and index labels.
C13_LoadedTableReadOnly == Ready => df_all = load_data(csv)

\* a run that filtered rows away and sorted a weight class of the rest
C13_Witness ==
    /\ Ready
    /\ selected_league # ALL /\ selected_grade # ALL
    /\ 0 < Len(dff.rows) /\ Len(dff.rows) < Len(df_all.rows)
    /\ wc.status = "table"
    /\ Len(df_all.rows) = Len(csv.rows)

\* C14: when the table has no global_score column but has a rank or a
\* Win_Pct column, the weight-class ranking still shows its table, for
\* every weight class it shows with all the filtered rows of that weight,
\* without a score column, and no run ends in an exception.
C14_NoScoreDegrades ==
    /\ Ready
    /\ "global_score" \notin dff.columns
    /\ {"rank", "Win_Pct"} \cap dff.columns # {}
    /\ HasWeightRows
    => /\ wc.status = "table"
       /\ p4p.status # "exception"
       /\ wc.views # <<>>
       /\ \A k \in ViewIndices :
             /\ "FloWrestling Score" \notin Range(wc.views[k].columns)
             /\ Len(wc.views[k].rows) = Cardinality(RowsAtWeight(wc.views[k].weight))

\* ---------------------------------------------------------- static rank
\* the least static rank among the filtered rows of weight w
MinStaticRank(w) == Min({dff.rows[i]["rank"] : i \in RowsAtWeight(w)})

\* the rows of view v are in static rank order, and its #1 has the least
\* static rank of the filtered rows of its weight
StaticOrderKept(v) ==
    /\ \A i, j \in 1..Len(v.rows) :
          Shown(v.rows[i])["rank"] < Shown(v.rows[j])["rank"]
          => v.rows[i]["Rank"] < v.rows[j]["Rank"]
    /\ \E i \in 1..Len(v.rows) : v.rows[i]["Rank"] = 1
    /\ \A i \in 1..Len(v.rows) :
          v.rows[i]["Rank"] = 1 => Shown(v.rows[i])["rank"] = MinStaticRank(v.weight)

\* the expander label "<weight> | <name> (<team>)" names the row shown as #1
LabelNamesTop(v) ==
    \E i \in 1..Len(v.rows) :
        /\ v.rows[i]["Rank"] = 1
        /\ v.label = ToString(v.weight) \o " | " \o v.rows[i]["Wrestler Name"]
                        \o " (" \o v.rows[i]["Team Name"] \o ")"

\* C15: with a static rank column, in every weight-class view a row with
\* the strictly smaller static rank has the smaller displayed rank, the
\* row displayed as #1 has the least static rank among the rows that remain
\* after filtering, and the MO expander label names that row.
C15_StaticOrderPreserved ==
    Ready /\ "rank" \in dff.columns =>
        /\ HasWeightRows => wc.views # <<>>
        /\ \A k \in ViewIndices :
              /\ StaticOrderKept(wc.views[k])
              /\ variant = "MO" => LabelNamesTop(wc.views[k])

\* the grade filter removed the static #1 of the weight class; two rows
\* remain, and the new #1 comes after the new #2 in the file
C15_Witness ==
    /\ Ready
    /\ selected_grade = "10"
    /\ \A i \in 2..Len(df_all.rows) :
          df_all.rows[1]["rank"] < df_all.rows[i]["rank"]
    /\ df_all.rows[1]["weight"] = 106
    /\ \E k \in ViewIndices :
          /\ wc.views[k].weight = 106
          /\ Len(wc.views[k].rows) = 2
          /\ \E i, j \in 1..2 :
                /\ wc.views[k].rows[i]["Rank"] = 1
                /\ wc.views[k].rows[j]["Rank"] = 2
                /\ Shown(wc.views[k].rows[i])["rank"] > df_all.rows[1]["rank"]
                /\ Shown(wc.views[k].rows[i])["rank"] < Shown(wc.views[k].rows[j])["rank"]
                /\ PosOf(dff, wc.views[k].rows[i]["Wrestler Name"])
                      > PosOf(dff, wc.views[k].rows[j]["Wrestler Name"])

\* --------------------------------------------------------- weight classes
StrictlyIncreasing(s) == \A i, j \in 1..Len(s) : i < j => s[i] < s[j]

ViewNames(v) == {v.rows[i]["Wrestler Name"] : i \in 1..Len(v.rows)}

\* view v shows the filtered rows of its weight, each once, and no other
ShowsItsWeight(v) ==
    /\ v.weight \in Range(wc.weights)
    /\ v.rows # <<>>
    /\ ViewNames(v) = {dff.rows[i]["wrestler_name"] : i \in RowsAtWeight(v.weight)}
    /\ Len(v.rows) = Cardinality(RowsAtWeight(v.weight))

\* C16: the selectable weights are the distinct non-null weights of the
\* filtered set in ascending order; every view shows exactly the filtered
\* rows of its own weight and is not empty; the MO page has one view per
\* weight, the IA tab the view of the selected weight, which is one of the
\* selectable ones.  (Stated for tables with the grade column, which the
\* IA pound-for-pound tab reads before the weight-class tab runs.)
C16_WeightClassesPartition ==
    Ready /\ {"weight", "grade"} \subseteq dff.columns =>
        /\ StrictlyIncreasing(wc.weights)
        /\ Range(wc.weights) = ColumnValues(dff, "weight") \ {NaN}
        /\ \A k \in ViewIndices : ShowsItsWeight(wc.views[k])
        /\ variant = "MO" =>
              /\ Len(wc.views) = Len(wc.weights)
              /\ \A k \in ViewIndices : wc.views[k].weight = wc.weights[k]
        /\ variant = "IA" /\ wc.weights # <<>> =>
              /\ Len(wc.views) = 1
              /\ wc.views[1].weight = weight_radio

\* two weights whose file order is not their sorted order
C16_Witness ==
    /\ Ready
    /\ {"weight", "grade"} \subseteq dff.columns
    /\ Len(dff.rows) = 2
    /\ dff.rows[1]["weight"] = 113 /\ dff.rows[2]["weight"] = 106
    /\ wc.weights = <<106, 113>>
    /\ \E k \in ViewIndices : wc.views[k].weight = 113 /\ Len(wc.views[k].rows) = 1

\* a row without a weight is in no view and adds no weight class
C16_WitnessNoWeight ==
    /\ Ready
    /\ {"weight", "grade"} \subseteq dff.columns
    /\ Len(dff.rows) = 2
    /\ dff.rows[1]["weight"] = NaN
    /\ Len(wc.weights) = 1
    /\ \E k \in ViewIndices : Len(wc.views[k].rows) = 1

\* one run from the file with the selections shown now (the three filters
\* and, in the IA script, the weight of the radio)
FreshRun ==
    Run(variant, load_data(csv), selected_league, selected_metro, selected_grade,
        weight_radio, tie)

SameAsFresh(out) ==
    /\ dff = out.dff
    /\ p4p = out.p4p
    /\ wc = out.wc
    /\ weight_radio = out.radio

\* C17: after any sequence of selection changes, what is displayed (the
\* filtered rows, the pound-for-pound table, the weight-class views with
\* their ranks) is what one run on the originally loaded table gives with
\* the current selections alone, so two runs with the same selections show
\* the same, whatever was selected before.
C17_HistoryIndependent == Ready => SameAsFresh(FreshRun)

\* all three filters and a weight other than the first have been selected
C17_Witness ==
    /\ Ready
    /\ variant = "IA"
    /\ selected_league # ALL /\ selected_metro # ALL /\ selected_grade = "9"
    /\ Len(wc.weights) = 2
    /\ weight_radio = wc.weights[2]
    /\ wc.status = "table"
    /\ p4p.status = "table"

=============================================================================
